---- MODULE Spec2Model ----
(***************************************************************************)
(* Model of proxy_server.py: ProxyHandler, an http.server request handler  *)
(* that relays the body of a remote URL back to the caller as JSON.        *)
(*                                                                         *)
(* HTTPServer is single threaded: one connection is handled at a time, by  *)
(* a fresh ProxyHandler instance.  The environment is the client (its      *)
(* request, when it closes its side, when it drops the connection) and the *)
(* remote site (what each outbound GET is answered with).                  *)
(***************************************************************************)
EXTENDS Integers, Sequences, FiniteSets, TLC

(* ---------------------------- bounds ----------------------------------- *)
\* longest Content-Length header value, in characters
MaxHeaderLen == 2
\* longest remote body, in bytes
MaxBody == 2

(* ----------------------- library constants ----------------------------- *)
\* urllib.request.HTTPRedirectHandler.max_repeats, the default of urlopen
max_repeats == 4

(* --------------------- small sequence helpers -------------------------- *)
SeqsUpTo(S, n) == UNION {[1..k -> S] : k \in 0..n}

Take(s, n) == SubSeq(s, 1, n)

(* ------------------- int(self.headers['Content-Length']) --------------- *)
\* The header is absent (None) or a string of these characters.
HeaderChars == {"-", "0", "1", "5", "x"}
None == [present |-> FALSE, text |-> <<>>]
Headers ==
  {None} \cup {[present |-> TRUE, text |-> t] : t \in SeqsUpTo(HeaderChars, MaxHeaderLen)}

Digits == {"0", "1", "5"}
DigitVal(c) == CASE c = "0" -> 0 [] c = "1" -> 1 [] c = "5" -> 5

RECURSIVE DigitsVal(_)
DigitsVal(s) ==
  IF s = <<>> THEN 0
  ELSE 10 * DigitsVal(Take(s, Len(s) - 1)) + DigitVal(s[Len(s)])

AllDigits(s) == s # <<>> /\ \A i \in 1..Len(s) : s[i] \in Digits

\* int(h): TypeError for None, ValueError unless [-]digits+, else the value.
int(h) ==
  IF ~h.present THEN [ok |-> FALSE, err |-> "TypeError", val |-> 0]
  ELSE IF AllDigits(h.text)
       THEN [ok |-> TRUE, err |-> "", val |-> DigitsVal(h.text)]
  ELSE IF h.text # <<>> /\ Head(h.text) = "-" /\ AllDigits(Tail(h.text))
       THEN [ok |-> TRUE, err |-> "", val |-> 0 - DigitsVal(Tail(h.text))]
  ELSE [ok |-> FALSE, err |-> "ValueError", val |-> 0]

(* ------------------------ request bodies ------------------------------- *)
\* A request body is a sequence of JSON tokens, one unit of length each.
\* "url" and "k" are string tokens used as keys; U1, U2 are strings that are
\* fetchable URLs, "bad" a string that is no URL, "7" a number, "x" garbage.
URLs == {"U1", "U2"}
StringTokens == {"url", "k", "bad"} \cup URLs
ScalarTokens == StringTokens \cup {"7"}

Bodies ==
  { <<>>,
    <<"x">>,
    <<"7">>,
    <<"[", "]">>,
    <<"{", "}">>,
    <<"{", "k", ":", "U1", "}">>,
    <<"{", "url", ":", "U1", "}">>,
    <<"{", "url", ":", "U2", "}">>,
    <<"{", "url", ":", "bad", "}">>,
    <<"{", "url", ":", "7", "}">>,
    <<"{", "url", ":", "U1", "}", "x">> }

\* self.rfile.read(n) on a buffered socket reader: n < -1 is a ValueError,
\* n = -1 reads to end of stream, n >= 0 reads n bytes or to end of stream.
\* It returns only when the bytes are there or the client has closed.
ReadBlocks(n, body, eof) ==
  /\ n >= -1
  /\ (n = -1 \/ n > Len(body))
  /\ ~eof

rfile_read(n, body) ==
  IF n < -1 THEN [ok |-> FALSE, err |-> "ValueError", data |-> <<>>]
  ELSE IF n = -1 \/ n > Len(body) THEN [ok |-> TRUE, err |-> "", data |-> body]
  ELSE [ok |-> TRUE, err |-> "", data |-> Take(body, n)]

\* Variant: as json_loads, but parsing stops at the end of the first value
\* and ignores what follows it (JSONDecoder.raw_decode).
json_loads_raw_decode(d) ==
  LET v == IF Len(d) > 5 THEN Take(d, 5) ELSE d
  IN  IF /\ Len(v) = 5 /\ v[1] = "{" /\ v[2] \in StringTokens /\ v[3] = ":"
         /\ v[4] \in ScalarTokens /\ v[5] = "}"
        THEN [ok |-> TRUE, kind |-> "dict", key |-> v[2], val |-> v[4]]
      ELSE IF Len(v) = 1 /\ v[1] \in ScalarTokens
        THEN [ok |-> TRUE, kind |-> "scalar", key |-> "", val |-> v[1]]
      ELSE IF v \in {<<"[", "]">>, <<"{", "}">>}
        THEN [ok |-> TRUE, kind |-> IF v[1] = "[" THEN "list" ELSE "dict",
              key |-> "", val |-> ""]
      ELSE [ok |-> FALSE, kind |-> "", key |-> "", val |-> ""]

\* json.loads(post_data): the parsed value, or JSONDecodeError.
json_loads(d) ==
  IF Len(d) = 1 /\ d[1] \in ScalarTokens
    THEN [ok |-> TRUE, kind |-> "scalar", key |-> "", val |-> d[1]]
  ELSE IF d = <<"[", "]">>
    THEN [ok |-> TRUE, kind |-> "list", key |-> "", val |-> ""]
  ELSE IF d = <<"{", "}">>
    THEN [ok |-> TRUE, kind |-> "dict", key |-> "", val |-> ""]
  ELSE IF /\ Len(d) = 5 /\ d[1] = "{" /\ d[2] \in StringTokens /\ d[3] = ":"
          /\ d[4] \in ScalarTokens /\ d[5] = "}"
    THEN [ok |-> TRUE, kind |-> "dict", key |-> d[2], val |-> d[4]]
  ELSE [ok |-> FALSE, kind |-> "", key |-> "", val |-> ""]

\* json.loads(post_data)['url']
subscript_url(j) ==
  IF ~j.ok THEN [ok |-> FALSE, err |-> "JSONDecodeError", url |-> ""]
  ELSE IF j.kind # "dict" THEN [ok |-> FALSE, err |-> "TypeError", url |-> ""]
  ELSE IF j.key # "url" THEN [ok |-> FALSE, err |-> "KeyError", url |-> ""]
  ELSE [ok |-> TRUE, err |-> "", url |-> j.val]

\* urllib.request.Request(url, headers=headers): ValueError("unknown url
\* type") unless the value, as a string, has a scheme.
Request(url) ==
  IF url \in URLs THEN [ok |-> TRUE, err |-> ""]
  ELSE [ok |-> FALSE, err |-> "ValueError"]

(* ---------------- response.read().decode('utf-8') ---------------------- *)
\* Remote bodies are byte strings over: "a" (0x61), "q" (0x22, the double
\* quote), "bs" (0x5C, the backslash), "C3" and "A9" (together U+00E9, alone
\* malformed) and "FF" (never valid in UTF-8).
Bytes == {"a", "q", "bs", "C3", "A9", "FF"}
RawBodies == SeqsUpTo(Bytes, MaxBody)

\* Variant: decode('utf-8', errors='ignore') drops what is malformed.
decode_utf8_ignore(b) ==
  LET Ascii(x) == x \in {"a", "q", "bs"}
  IN  [ok |-> TRUE, text |-> SelectSeq(b, Ascii)]

\* bytes.decode('utf-8'), strict: the code points, or UnicodeDecodeError.
RECURSIVE decode_utf8(_)
decode_utf8(b) ==
  IF b = <<>> THEN [ok |-> TRUE, text |-> <<>>]
  ELSE IF Head(b) \in {"a", "q", "bs"} THEN
    LET r == decode_utf8(Tail(b))
    IN  [ok |-> r.ok, text |-> IF r.ok THEN <<Head(b)>> \o r.text ELSE <<>>]
  ELSE IF Head(b) = "C3" /\ Len(b) >= 2 /\ b[2] = "A9" THEN
    LET r == decode_utf8(Tail(Tail(b)))
    IN  [ok |-> r.ok, text |-> IF r.ok THEN <<"e9">> \o r.text ELSE <<>>]
  ELSE [ok |-> FALSE, text |-> <<>>]

(* ------------------------- json.dumps ---------------------------------- *)
\* The characters json.dumps writes between the quotes of a string value
\* (ensure_ascii is on): "u00e9" stands for the five characters u00e9.
\* Variant: the string is written between the quotes as it is, only
\* non-ASCII characters are escaped.
escape_char_raw(c) == IF c = "e9" THEN <<"bs", "u00e9">> ELSE <<c>>

escape_char(c) ==
  CASE c = "a"  -> <<"a">>
    [] c = "q"  -> <<"bs", "q">>
    [] c = "bs" -> <<"bs", "bs">>
    [] c = "e9" -> <<"bs", "u00e9">>

RECURSIVE json_dumps_str(_)
json_dumps_str(t) ==
  IF t = <<>> THEN <<>> ELSE escape_char(Head(t)) \o json_dumps_str(Tail(t))

\* str(e) for the exceptions the handler can catch.
str(e) ==
  CASE e = "TypeError"          -> "object is not subscriptable or not a number"
    [] e = "ValueError"         -> "invalid literal, read length or unknown url type"
    [] e = "JSONDecodeError"    -> "Expecting value: line 1 column 1 (char 0)"
    [] e = "KeyError"           -> "'url'"
    [] e = "URLError"           -> "<urlopen error [Errno 111] Connection refused>"
    [] e = "HTTPError"          -> "HTTP Error 404: Not Found"
    [] e = "IncompleteRead"     -> "IncompleteRead(0 bytes read)"
    [] e = "UnicodeDecodeError" -> "'utf-8' codec can't decode byte"
    [] e = "BrokenPipeError"    -> "[Errno 32] Broken pipe"

(* ------------------- what is written to the client --------------------- *)
Item(t, code, name, value, status, text) ==
  [t |-> t, code |-> code, name |-> name, value |-> value,
   status |-> status, text |-> text]

StatusLine(code) == Item("status", code, "", "", "", <<>>)
Header(name, value) == Item("header", 0, name, value, "", <<>>)
EndOfHeaders == Item("eoh", 0, "", "", "", <<>>)
\* json.dumps({'content': website_content, 'status': 'success'})
SuccessBody(content) == Item("body", 0, "", "", "success", json_dumps_str(content))
\* json.dumps({'status': 'error', 'message': error_message})
ErrorBody(message) == Item("body", 0, "", "", "error", <<message>>)

\* BaseHTTPRequestHandler.send_response: the status line and the Server and
\* Date headers go to the headers buffer.
send_response(buf, code) ==
  buf \o <<StatusLine(code), Header("Server", "BaseHTTP"), Header("Date", "now")>>

send_header(buf, name, value) == buf \o <<Header(name, value)>>

send_cors_headers(buf) ==
  send_header(
    send_header(
      send_header(buf, "Access-Control-Allow-Origin", "*"),
      "Access-Control-Allow-Methods", "GET, POST, OPTIONS"),
    "Access-Control-Allow-Headers", "Content-Type")

\* end_headers appends the blank line; flush_headers then writes the buffer.
end_headers(buf) == buf \o <<EndOfHeaders>>

\* Variant: do_OPTIONS without the call of send_cors_headers.
options_headers_no_cors == end_headers(send_response(<<>>, 200))

\* do_OPTIONS, lines 9-11
options_headers == end_headers(send_cors_headers(send_response(<<>>, 200)))

\* do_POST, lines 31-34; `buf` is what the headers buffer already holds
success_headers(buf) ==
  end_headers(
    send_header(send_cors_headers(send_response(buf, 200)),
                "Content-Type", "application/json"))

\* Variant: send_error_response without the call of send_cors_headers.
error_headers_no_cors(buf) ==
  end_headers(send_header(send_response(buf, 500), "Content-Type", "application/json"))

\* send_error_response, lines 54-57
error_headers(buf) ==
  end_headers(
    send_header(send_cors_headers(send_response(buf, 500)),
                "Content-Type", "application/json"))

(* ------------------------------ state ---------------------------------- *)
VARIABLES
  pc,              \* where the handler of the current connection is
  method,          \* request method: "POST" or "OPTIONS"
  header,          \* the request's Content-Length header
  body,            \* the request body the client sent
  clientEOF,       \* the client has closed its sending side
  connBroken,      \* the client has dropped the connection: writes raise
  did_read,        \* rfile.read has returned
  post_data,       \* do_POST: post_data
  url,             \* do_POST: url
  cur,             \* urlopen: the URL the next GET goes to
  visited,         \* urlopen: redirect_dict, redirects followed per target
  requests,        \* outbound GETs issued for this request
  first_url,       \* the URL of the first of them
  failed_gets,     \* outbound GETs that ended in an error
  conn,            \* outbound response: "none", "open", "closed", or "exc"
                   \* (an HTTPError owns it until the exception is dropped)
  raw,             \* bytes returned by response.read()
  website_content, \* do_POST: website_content
  decoded,         \* line 28 has completed
  hdrbuf,          \* BaseHTTPRequestHandler._headers_buffer
  wire,            \* what has been written to the client socket
  started,         \* the codes send_response has been called with
  err              \* the exception caught by do_POST's except clauses

vars == <<pc, method, header, body, clientEOF, connBroken, did_read, post_data,
          url, cur, visited, requests, first_url, failed_gets, conn, raw,
          website_content, decoded, hdrbuf, wire, started, err>>

client == <<method, header, body>>
link == <<clientEOF, connBroken>>
parsed == <<did_read, post_data, url>>
outbound == <<cur, visited, requests, first_url, failed_gets, conn>>
fetched == <<raw, website_content, decoded>>
response == <<hdrbuf, wire, started>>

\* The redirect targets the remote sites answer with.
Locations == {"U2"}

NoVisits == [u \in Locations |-> 0]

\* No connection is being handled: HTTPServer waits in serve_forever.
Fresh ==
  /\ pc = "idle"
  /\ method = "" /\ header = None /\ body = <<>>
  /\ clientEOF = FALSE /\ connBroken = FALSE
  /\ did_read = FALSE /\ post_data = <<>> /\ url = ""
  /\ cur = "" /\ visited = NoVisits /\ requests = 0 /\ first_url = ""
  /\ failed_gets = 0 /\ conn = "none"
  /\ raw = <<>> /\ website_content = <<>> /\ decoded = FALSE
  /\ hdrbuf = <<>> /\ wire = <<>> /\ started = <<>> /\ err = ""

Init == Fresh

Handling == pc \notin {"idle", "done", "crashed"}

(* --------------------------- the client -------------------------------- *)
\* A request arrives and a ProxyHandler is constructed for it.
Accept ==
  /\ pc = "idle"
  /\ \E m \in {"POST", "OPTIONS"}, h \in Headers, b \in Bodies :
       /\ method' = m /\ header' = h /\ body' = b
       /\ pc' = IF m = "POST" THEN "post_read" ELSE "options"
  /\ UNCHANGED <<link, parsed, outbound, fetched, response, err>>

\* The client shuts down its sending side; it can still receive.
ClientHalfClose ==
  /\ Handling /\ ~clientEOF
  /\ clientEOF' = TRUE
  /\ UNCHANGED <<pc, client, connBroken, parsed, outbound, fetched, response, err>>

\* The client drops the connection: reads see end of stream, writes raise.
ClientDisconnect ==
  /\ Handling /\ ~connBroken
  /\ clientEOF' = TRUE /\ connBroken' = TRUE
  /\ UNCHANGED <<pc, client, parsed, outbound, fetched, response, err>>

(* -------------------------- do_OPTIONS --------------------------------- *)
do_OPTIONS ==
  /\ pc = "options"
  /\ started' = Append(started, 200)
  /\ IF connBroken
       THEN /\ hdrbuf' = options_headers
            /\ wire' = wire
            /\ pc' = "crashed"
       ELSE /\ hdrbuf' = <<>>
            /\ wire' = wire \o options_headers
            /\ pc' = "done"
  /\ UNCHANGED <<client, link, parsed, outbound, fetched, err>>

(* --------------------------- do_POST ----------------------------------- *)
\* Lines 16-26 as a function of the request: what is read, the url, or the
\* exception raised.
read_request(h, b) ==
  LET n == int(h)
      r == rfile_read(n.val, b)
      u == subscript_url(json_loads(r.data))
      q == Request(u.url)
  IN  IF ~n.ok THEN [ok |-> FALSE, err |-> n.err, read |-> FALSE, data |-> <<>>, url |-> ""]
      ELSE IF ~r.ok THEN [ok |-> FALSE, err |-> r.err, read |-> FALSE, data |-> <<>>, url |-> ""]
      ELSE IF ~u.ok THEN [ok |-> FALSE, err |-> u.err, read |-> TRUE, data |-> r.data, url |-> ""]
      ELSE IF ~q.ok THEN [ok |-> FALSE, err |-> q.err, read |-> TRUE, data |-> r.data, url |-> u.url]
      ELSE [ok |-> TRUE, err |-> "", read |-> TRUE, data |-> r.data, url |-> u.url]

\* Lines 16-26.  rfile.read returns once the bytes asked for have arrived or
\* the client has closed.
do_POST_read ==
  /\ pc = "post_read"
  /\ int(header).ok => ~ReadBlocks(int(header).val, body, clientEOF)
  /\ LET q == read_request(header, body)
     IN  /\ did_read' = q.read
         /\ post_data' = q.data
         /\ url' = q.url
         /\ IF q.ok
              THEN /\ pc' = "urlopen" /\ cur' = q.url /\ err' = err
              ELSE /\ pc' = "except" /\ cur' = cur /\ err' = q.err
  /\ UNCHANGED <<client, link, visited, requests, first_url, failed_gets, conn,
                 fetched, response>>

\* Line 27: a GET to cur is answered with a 2xx response.
urlopen_ok ==
  /\ pc = "urlopen"
  /\ requests' = requests + 1
  /\ first_url' = IF requests = 0 THEN cur ELSE first_url
  /\ conn' = "open"
  /\ pc' = "read"
  /\ UNCHANGED <<client, link, parsed, cur, visited, failed_gets, fetched, response, err>>

\* Line 27: a GET to cur is answered with a redirect; HTTPRedirectHandler
\* follows it with a new GET unless the target was visited max_repeats times.
urlopen_redirect ==
  /\ pc = "urlopen"
  /\ requests' = requests + 1
  /\ first_url' = IF requests = 0 THEN cur ELSE first_url
  /\ \E loc \in Locations :
       IF visited[loc] >= max_repeats
         THEN /\ pc' = "except" /\ err' = "HTTPError" /\ conn' = "exc"
              /\ failed_gets' = failed_gets + 1
              /\ UNCHANGED <<cur, visited>>
         ELSE /\ visited' = [visited EXCEPT ![loc] = @ + 1]
              /\ cur' = loc
              /\ UNCHANGED <<pc, err, conn, failed_gets>>
  /\ UNCHANGED <<client, link, parsed, fetched, response>>

\* Variant: a GET that fails to connect is tried once more.
urlopen_fails_retry ==
  /\ pc = "urlopen"
  /\ requests' = requests + 1
  /\ first_url' = IF requests = 0 THEN cur ELSE first_url
  /\ failed_gets' = failed_gets + 1
  /\ IF failed_gets = 0
       THEN /\ pc' = "urlopen" /\ err' = err
       ELSE /\ pc' = "except" /\ err' = "URLError"
  /\ UNCHANGED <<client, link, parsed, cur, visited, conn, fetched, response>>

\* Line 27: the GET fails.  URLError: no connection (DNS, refused).
\* HTTPError: an error status; the exception object owns the response.
urlopen_fails ==
  /\ pc = "urlopen"
  /\ requests' = requests + 1
  /\ first_url' = IF requests = 0 THEN cur ELSE first_url
  /\ failed_gets' = failed_gets + 1
  /\ \E e \in {"URLError", "HTTPError"} :
       /\ err' = e
       /\ conn' = IF e = "HTTPError" THEN "exc" ELSE conn
  /\ pc' = "except"
  /\ UNCHANGED <<client, link, parsed, cur, visited, fetched, response>>

\* Variant: the response is bound by a plain assignment and never closed.
no_with(c) == c

\* Leaving the with block of lines 27-28, normally or by an exception,
\* closes the response.
with_exit(c) == "closed"

\* Line 28, and leaving the with block.
read_decode ==
  /\ pc = "read"
  /\ conn' = with_exit(conn)
  /\ \/ /\ pc' = "except" /\ err' = "IncompleteRead"
        /\ UNCHANGED fetched
     \/ \E b \in RawBodies :
          LET d == decode_utf8(b)
          IN  /\ raw' = b
              /\ IF d.ok
                   THEN /\ website_content' = d.text /\ decoded' = TRUE
                        /\ pc' = "respond" /\ err' = err
                   ELSE /\ website_content' = website_content /\ decoded' = decoded
                        /\ pc' = "except" /\ err' = "UnicodeDecodeError"
  /\ UNCHANGED <<client, link, parsed, cur, visited, requests, first_url,
                 failed_gets, response>>

\* Lines 31-34.  end_headers writes the headers buffer to the socket; when
\* the write raises, the buffer keeps its content.
send_success_headers ==
  /\ pc = "respond"
  /\ started' = Append(started, 200)
  /\ IF connBroken
       THEN /\ hdrbuf' = success_headers(hdrbuf)
            /\ wire' = wire
            /\ pc' = "except" /\ err' = "BrokenPipeError"
       ELSE /\ hdrbuf' = <<>>
            /\ wire' = wire \o success_headers(hdrbuf)
            /\ pc' = "respond_body" /\ err' = err
  /\ UNCHANGED <<client, link, parsed, outbound, fetched>>

\* Lines 37-41.
send_success_body ==
  /\ pc = "respond_body"
  /\ IF connBroken
       THEN /\ wire' = wire
            /\ pc' = "except" /\ err' = "BrokenPipeError"
       ELSE /\ wire' = Append(wire, SuccessBody(website_content))
            /\ pc' = "done" /\ err' = err
  /\ UNCHANGED <<client, link, parsed, outbound, fetched, hdrbuf, started>>

(* ---------------------- send_error_response ---------------------------- *)
\* Lines 43-46 entering lines 54-57.  Nothing catches what is raised here.
send_error_headers ==
  /\ pc = "except"
  /\ started' = Append(started, 500)
  /\ IF connBroken
       THEN /\ hdrbuf' = error_headers(hdrbuf)
            /\ wire' = wire
            /\ pc' = "crashed"
       ELSE /\ hdrbuf' = <<>>
            /\ wire' = wire \o error_headers(hdrbuf)
            /\ pc' = "error_body"
  /\ UNCHANGED <<client, link, parsed, outbound, fetched, err>>

\* Lines 58-62, and the end of the except clause, which drops the exception
\* and with it the response an HTTPError owns.
send_error_body ==
  /\ pc = "error_body"
  /\ IF connBroken
       THEN /\ wire' = wire
            /\ conn' = conn
            /\ pc' = "crashed"
       ELSE /\ wire' = Append(wire, ErrorBody(str(err)))
            /\ conn' = IF conn = "exc" THEN "closed" ELSE conn
            /\ pc' = "done"
  /\ UNCHANGED <<client, link, parsed, cur, visited, requests, first_url,
                 failed_gets, fetched, hdrbuf, started, err>>

(* ------------------------- serve_forever ------------------------------- *)
\* The connection is shut down (an exception that escaped the handler is
\* reported by the server first) and the server waits for the next one.
Finish ==
  /\ pc \in {"done", "crashed"}
  /\ pc' = "idle"
  /\ method' = "" /\ header' = None /\ body' = <<>>
  /\ clientEOF' = FALSE /\ connBroken' = FALSE
  /\ did_read' = FALSE /\ post_data' = <<>> /\ url' = ""
  /\ cur' = "" /\ visited' = NoVisits /\ requests' = 0 /\ first_url' = ""
  /\ failed_gets' = 0 /\ conn' = "none"
  /\ raw' = <<>> /\ website_content' = <<>> /\ decoded' = FALSE
  /\ hdrbuf' = <<>> /\ wire' = <<>> /\ started' = <<>> /\ err' = ""

Next ==
  \/ Accept
  \/ ClientHalfClose
  \/ ClientDisconnect
  \/ do_OPTIONS
  \/ do_POST_read
  \/ urlopen_ok
  \/ urlopen_redirect
  \/ urlopen_fails
  \/ read_decode
  \/ send_success_headers
  \/ send_success_body
  \/ send_error_headers
  \/ send_error_body
  \/ Finish

Spec == Init /\ [][Next]_vars

(***************************************************************************)
(* What a client sees.  These definitions read the bytes on the wire the   *)
(* way an HTTP client and a JSON parser do; they use none of the           *)
(* handler's own operators.                                                *)
(***************************************************************************)
RECURSIVE CountItems(_, _, _, _)
\* the items of w of type t that carry `name` and `value` ("*" matches any)
CountItems(w, t, name, value) ==
  IF w = <<>> THEN 0
  ELSE (IF /\ Head(w).t = t
           /\ (name = "*" \/ Head(w).name = name)
           /\ (value = "*" \/ Head(w).value = value)
        THEN 1 ELSE 0) + CountItems(Tail(w), t, name, value)

NumStatus(w) == CountItems(w, "status", "*", "*")
NumBodies(w) == CountItems(w, "body", "*", "*")

\* header `name` occurs exactly once in w, with `value`
HasOnce(w, name, value) ==
  /\ CountItems(w, "header", name, "*") = 1
  /\ CountItems(w, "header", name, value) = 1

CorsOnce(w) ==
  /\ HasOnce(w, "Access-Control-Allow-Origin", "*")
  /\ HasOnce(w, "Access-Control-Allow-Methods", "GET, POST, OPTIONS")
  /\ HasOnce(w, "Access-Control-Allow-Headers", "Content-Type")

\* w is one header block: a status line with `code`, headers, a blank line
HeadOf(w, code, n) ==
  /\ Len(w) >= n
  /\ w[1].t = "status" /\ w[1].code = code
  /\ NumStatus(w) = 1
  /\ CountItems(w, "eoh", "*", "*") = 1
  /\ \E i \in 2..Len(w) :
       /\ w[i].t = "eoh"
       /\ \A k \in 2..(i - 1) : w[k].t = "header"
       /\ \A k \in (i + 1)..Len(w) : w[k].t = "body"

\* The string a JSON parser reads from the characters between the quotes.
RECURSIVE Unescape(_)
Unescape(s) ==
  IF s = <<>> THEN [ok |-> TRUE, text |-> <<>>]
  ELSE IF Head(s) = "q" THEN [ok |-> FALSE, text |-> <<>>]
  ELSE IF Head(s) = "bs" THEN
    IF Len(s) >= 2 /\ s[2] \in {"q", "bs", "u00e9"} THEN
      LET r == Unescape(Tail(Tail(s)))
          c == IF s[2] = "u00e9" THEN "e9" ELSE s[2]
      IN  [ok |-> r.ok, text |-> IF r.ok THEN <<c>> \o r.text ELSE <<>>]
    ELSE [ok |-> FALSE, text |-> <<>>]
  ELSE
    LET r == Unescape(Tail(s))
    IN  [ok |-> r.ok, text |-> IF r.ok THEN <<Head(s)>> \o r.text ELSE <<>>]

\* the wire holds exactly the 200 response whose content is the text T
IsSuccessResponse(w, T) ==
  /\ HeadOf(w, 200, 2)
  /\ HasOnce(w, "Content-Type", "application/json")
  /\ NumBodies(w) = 1
  /\ w[Len(w)].t = "body"
  /\ w[Len(w)].status = "success"
  /\ Unescape(w[Len(w)].text) = [ok |-> TRUE, text |-> T]

\* the wire holds exactly a 500 response with status "error" and a message
IsErrorResponse(w) ==
  /\ HeadOf(w, 500, 2)
  /\ HasOnce(w, "Content-Type", "application/json")
  /\ NumBodies(w) = 1
  /\ w[Len(w)].t = "body"
  /\ w[Len(w)].status = "error"
  /\ Len(w[Len(w)].text) = 1
  /\ w[Len(w)].text[1] # ""

\* a body with status "success", or any part of one, is on the wire
SuccessSent(w) == \E i \in 1..Len(w) : w[i].t = "body" /\ w[i].status = "success"

\* Well-formed UTF-8 and the text it encodes.
RECURSIVE ValidUtf8(_)
ValidUtf8(b) ==
  \/ b = <<>>
  \/ Head(b) \in {"a", "q", "bs"} /\ ValidUtf8(Tail(b))
  \/ Len(b) >= 2 /\ b[1] = "C3" /\ b[2] = "A9" /\ ValidUtf8(Tail(Tail(b)))

RECURSIVE TextOf(_)
TextOf(b) ==
  IF b = <<>> THEN <<>>
  ELSE IF Head(b) = "C3" THEN <<"e9">> \o TextOf(Tail(Tail(b)))
  ELSE <<Head(b)>> \o TextOf(Tail(b))

\* JSON texts among the request bodies, and those that are an object with
\* the key url.
ValidJson(d) ==
  \/ Len(d) = 1 /\ d[1] \in ScalarTokens
  \/ d = <<"[", "]">>
  \/ d = <<"{", "}">>
  \/ /\ Len(d) = 5 /\ d[1] = "{" /\ d[2] \in StringTokens /\ d[3] = ":"
     /\ d[4] \in ScalarTokens /\ d[5] = "}"

HasUrlKey(d) == ValidJson(d) /\ Len(d) = 5 /\ d[2] = "url"

\* The Content-Length header is absent, not a number, or negative.
IsDigitString(t) == t # <<>> /\ \A i \in 1..Len(t) : t[i] \in {"0", "1", "5"}
IsSigned(t) == t # <<>> /\ Head(t) = "-" /\ IsDigitString(Tail(t))
NonNumeric(t) == ~IsDigitString(t) /\ ~IsSigned(t)
Negative(t) == IsSigned(t) /\ \E i \in 2..Len(t) : t[i] # "0"
InvalidLength(h) == ~h.present \/ NonNumeric(h.text) \/ Negative(h.text)

Finished == pc \in {"done", "crashed"}

(***************************************************************************)
(* Claims                                                                  *)
(***************************************************************************)

\* C1: every failure at any stage of do_POST, writing the response
\* included, is caught and becomes the one uniform HTTP 500 error response:
\* no exception escapes the handler, and a request on which something
\* failed puts nothing on the wire but that 500 response.
C1_EveryFailureBecomes500 ==
  method = "POST" =>
    /\ pc # "crashed"
    /\ (err # "" /\ wire # <<>>) => HeadOf(wire, 500, 1)
    /\ (err # "" /\ pc = "done") => IsErrorResponse(wire)

C3_Premise ==
  /\ method = "POST"
  /\ header.present /\ IsDigitString(header.text)
  /\ int(header).val = Len(body)
  /\ HasUrlKey(body) /\ body[4] \in URLs
  /\ conn = "closed" /\ failed_gets = 0 /\ err # "IncompleteRead"
  /\ ValidUtf8(raw)

\* C3: a POST whose body is the JSON object {"url": U} with the right
\* Content-Length, whose GET is answered and whose remote body is valid
\* UTF-8 for the text T, is answered (the client still being connected) with
\* exactly one HTTP 200 response, Content-Type application/json, whose body
\* has status "success" and a content string that parses back to T.
C3_SuccessEchoesContent ==
  C3_Premise =>
    /\ pc = "done" => IsSuccessResponse(wire, TextOf(raw))
    /\ pc = "crashed" => connBroken
    /\ wire # <<>> => HeadOf(wire, 200, 1)

\* a remote body holding a two-byte UTF-8 character was relayed
C3_Witness ==
  /\ C3_Premise /\ pc = "done"
  /\ raw = <<"C3", "A9">>
  /\ SuccessSent(wire)

\* what was read as the body is not a JSON object with the key url
C4_Premise ==
  /\ method = "POST"
  /\ pc \notin {"idle", "post_read"}
  /\ did_read
  /\ ~HasUrlKey(post_data)

\* C4: a POST whose body is not valid JSON, or is valid JSON without a url
\* key, never gets a 200 or a "success" body and causes no outbound
\* request; once handled it has been answered with exactly the HTTP 500
\* response with status "error" and a non-empty message (unless the client
\* dropped the connection, and then no body was sent).
C4_BadBodyIs500 ==
  C4_Premise =>
    /\ ~SuccessSent(wire)
    /\ \A i \in 1..Len(started) : started[i] = 500
    /\ requests = 0
    /\ pc = "done" => IsErrorResponse(wire)
    /\ pc = "crashed" => connBroken /\ ~SuccessSent(wire) /\ NumBodies(wire) = 0
    /\ Handling => pc \in {"except", "error_body"}

\* a body that is no JSON was read and answered
C4_Witness ==
  /\ C4_Premise /\ pc = "done"
  /\ ~ValidJson(post_data) /\ post_data # <<>>
  /\ IsErrorResponse(wire)

\* a valid JSON body without the key was read and answered
C4_WitnessNoKey ==
  /\ C4_Premise /\ pc = "done"
  /\ ValidJson(post_data)
  /\ IsErrorResponse(wire)

\* C5: do_POST reads exactly Content-Length bytes, and a POST whose
\* Content-Length is absent, not a number or negative fails with the HTTP 500
\* error response: it never has the body read, never waits for input and
\* never gets as far as an outbound request or a 200.
C5_InvalidLengthFails ==
  /\ (method = "POST" /\ did_read /\ ~InvalidLength(header)
        /\ Len(body) >= int(header).val)
       => Len(post_data) = int(header).val
  /\ (method = "POST" /\ InvalidLength(header)) =>
       /\ ~did_read
       /\ requests = 0
       /\ \A i \in 1..Len(started) : started[i] = 500
       /\ pc = "done" => IsErrorResponse(wire)

\* the fetch failed, or what it returned is not UTF-8
C6_FetchFailed ==
  \/ failed_gets > 0
  \/ err = "IncompleteRead"
  \/ ~ValidUtf8(raw)

\* C6: a POST whose outbound fetch fails, or whose fetched body is not
\* valid UTF-8, never gets a 200 or a "success" body and is answered with
\* exactly the HTTP 500 error response whose message is that of the
\* failure; and a 200 or a "success" body is only ever produced after the
\* fetch and the decode have both succeeded.
C6_NoPartialResult ==
  /\ (method = "POST" /\ C6_FetchFailed) =>
       /\ ~SuccessSent(wire)
       /\ \A i \in 1..Len(started) : started[i] = 500
       /\ err \in {"URLError", "HTTPError", "IncompleteRead", "UnicodeDecodeError"}
       /\ ~ValidUtf8(raw) => err = "UnicodeDecodeError"
       /\ pc = "done" =>
            /\ IsErrorResponse(wire)
            /\ wire[Len(wire)].text = <<str(err)>>
       /\ pc = "crashed" => connBroken /\ NumBodies(wire) = 0
  /\ (method = "POST" /\ (SuccessSent(wire) \/ \E i \in 1..Len(started) : started[i] = 200))
       => /\ ValidUtf8(raw) /\ website_content = TextOf(raw)
          /\ requests >= 1 /\ failed_gets = 0 /\ conn = "closed"

\* a body that is not UTF-8 was fetched and the request answered
C6_Witness ==
  /\ method = "POST" /\ pc = "done"
  /\ raw # <<>> /\ ~ValidUtf8(raw)
  /\ IsErrorResponse(wire)

\* C7: an OPTIONS request, whatever it carries, reads no request body and
\* issues no outbound request, and is answered, the client being connected,
\* with exactly one HTTP 200 header block holding the three CORS headers
\* and no body.
C7_OptionsIsPreflightOnly ==
  method = "OPTIONS" =>
    /\ ~did_read /\ post_data = <<>>
    /\ requests = 0 /\ conn = "none"
    /\ \A i \in 1..Len(started) : started[i] = 200
    /\ Len(started) <= 1
    /\ pc = "done" =>
         /\ HeadOf(wire, 200, 2) /\ CorsOnce(wire)
         /\ NumBodies(wire) = 0
         /\ wire[Len(wire)].t = "eoh"
    /\ pc = "crashed" => connBroken /\ wire = <<>>
    /\ Handling => pc = "options"

\* an OPTIONS request that came with a body and a Content-Length was answered
C7_Witness ==
  /\ method = "OPTIONS" /\ pc = "done"
  /\ body # <<>> /\ header.present
  /\ NumStatus(wire) = 1

\* C8 as stated: an inbound request causes at most one outbound request,
\* and that one goes to the url of the request.
C8_AtMostOneOutboundRequest ==
  /\ requests <= 1
  /\ requests = 1 => first_url = url

\* C8 as amended: urlopen is called once per POST that carries a usable
\* url and is never retried.  The first GET goes to that url; a further GET
\* is issued only to follow a redirect answer to the GET before it, never
\* after a GET has failed, and never for an OPTIONS request.
C8_OneFetchNeverRetried ==
  [][ requests' > requests =>
        /\ requests' = requests + 1
        /\ method = "POST"
        /\ failed_gets = 0
        /\ err = ""
        /\ url \in URLs
        /\ first_url' = url
        /\ requests = 0 => cur = url
        /\ requests = visited["U2"]
        /\ requests <= max_repeats
    ]_vars

\* a redirect was followed: a second GET went out for one inbound request
C8_Witness ==
  /\ method = "POST" /\ requests = 2 /\ visited["U2"] = 1
  /\ first_url = "U1" /\ cur = "U2"
  /\ pc = "read"

C10_AnsweredExactlyOnce ==
  method = "POST" =>
    /\ NumStatus(wire) >= 1 => Len(started) = 1
    /\ pc = "done" => NumStatus(wire) = 1 /\ Len(started) = 1

====
